---- MODULE Spec2Model ----
(***************************************************************************)
(* Model of main.py: the Cloud Function import_document_on_gcs_event,      *)
(* which turns a GCS object notification into one Discovery Engine         *)
(* import_documents call and blocks on the long-running operation.         *)
(*                                                                         *)
(* Several invocations run concurrently (one per delivered event).  Every  *)
(* invocation has its own locals; the module-level configuration is read   *)
(* by all of them.  Calls into the client library and the remote service   *)
(* either return or raise, which is a nondeterministic choice here.        *)
(***************************************************************************)
EXTENDS Integers, Sequences, FiniteSets, TLC

\* Number of concurrently running invocations of the handler.
NumInvocations == 2

Invocations == 1..NumInvocations

\* Python's None (the result of dict.get on an absent key, of an unset
\* environment variable, of a variable that has not been assigned).
None == "<None>"

\* str(v) as an f-string renders it: None prints as the text "None".
Fmt(v) == IF v = None THEN "None" ELSE v

\* Python truthiness of an optional string: None and "" are falsy.
Truthy(v) == v # None /\ v # ""

\* dict.get(key): the value, or None when the key is absent.
Get(data, key) == IF key \in DOMAIN data THEN data[key] ELSE None

FinalizedType == "google.cloud.storage.object.v1.finalized"
DeletedType == "google.cloud.storage.object.v1.deleted"

\* The CloudEvents the runtime may deliver: data is the payload dict (a
\* function whose domain is the set of keys present), type the event type.
Event(data, type) == [data |-> data, type |-> type]

Events ==
    { Event([bucket |-> "docs-bucket", name |-> "folder/report.pdf"], FinalizedType),
      Event([bucket |-> "docs-bucket", name |-> "folder/report.pdf"], DeletedType),
      Event([bucket |-> "b2", name |-> "a.txt"], FinalizedType),
      Event([name |-> "a.txt"], FinalizedType),
      Event([bucket |-> "docs-bucket", name |-> ""], DeletedType),
      Event(<<>>, DeletedType) }

NoEvent == Event(<<>>, None)

\* Exceptions the library calls of the import block can raise (str(e)).
ClientError == "DefaultCredentialsError"
SubmitError == "PermissionDenied"
ResultError == "GoogleAPICallError"
MetadataError == "TypeError"

\* Entries of an invocation's trace: lines printed, and calls made with
\* their outcome.
Printed(text) == [k |-> "print", s |-> text]
Call(fn) == [k |-> "call", s |-> fn]
Returned(fn) == [k |-> "ok", s |-> fn]
Raised(fn) == [k |-> "raise", s |-> fn]

\* ---- the pure parts of the handler ----

\* if not file_name or not bucket_name
MissingFieldNameOnly(bucket_name, file_name) == ~Truthy(file_name)

MissingField(bucket_name, file_name) == ~Truthy(file_name) \/ ~Truthy(bucket_name)

\* f"gs://{bucket_name}/{file_name}"
GcsUriNoSlash(bucket_name, file_name) == "gs://" \o Fmt(bucket_name) \o Fmt(file_name)

GcsUri(bucket_name, file_name) == "gs://" \o Fmt(bucket_name) \o "/" \o Fmt(file_name)

\* ClientOptions(api_endpoint=f"{LOCATION}-discoveryengine.googleapis.com")
\* if LOCATION != "global" else None
ClientOptions(location) ==
    IF location # "global"
    THEN [api_endpoint |-> Fmt(location) \o "-discoveryengine.googleapis.com"]
    ELSE [api_endpoint |-> None]

\* DocumentServiceClient.branch_path
BranchPath(project, location, data_store, branch) ==
    "projects/" \o Fmt(project) \o "/locations/" \o Fmt(location)
        \o "/collections/default_collection/dataStores/" \o Fmt(data_store)
        \o "/branches/" \o Fmt(branch)

\* discoveryengine.ImportDocumentsRequest(parent=..., gcs_source=GcsSource(...),
\*     reconciliation_mode=INCREMENTAL)
ImportDocumentsRequest(parent, uri) ==
    [parent |-> parent,
     gcs_source |-> [input_uris |-> <<uri>>, data_schema |-> "content"],
     reconciliation_mode |-> "INCREMENTAL"]

NoRequest == [parent |-> None,
              gcs_source |-> [input_uris |-> <<>>, data_schema |-> None],
              reconciliation_mode |-> None]

NoClient == [api_endpoint |-> "<no client>"]

\* The name the service gives the long-running operation of an invocation.
OperationName(i) == "operations/import-documents-" \o ToString(i)

\* The lines the handler prints.
EventLines(event_type, bucket_name, file_name) ==
    << Printed("Event type: " \o Fmt(event_type)),
       Printed("Bucket: " \o Fmt(bucket_name)),
       Printed("File: " \o Fmt(file_name)) >>

MissingLine == Printed("No file name or bucket name found in the event data. Exiting.")
UriLine(uri) == Printed("Constructed GCS URI: " \o Fmt(uri))
StartingLine(uri) == Printed("Starting document import for: " \o Fmt(uri))
WaitingLine(name) == Printed("Waiting for import operation to complete: " \o Fmt(name))
ResponseHeader == Printed("Import operation response:")
ResponseLine(response) == Printed(Fmt(response))
MetadataHeader == Printed("Import operation metadata:")
MetadataLine(metadata) == Printed(Fmt(metadata))
SuccessLine(uri, data_store) ==
    Printed("Successfully imported " \o Fmt(uri) \o " into datastore " \o Fmt(data_store))
ErrorLine(uri, e) == Printed("Error importing document " \o Fmt(uri) \o ": " \o Fmt(e))

VARIABLES
    PROJECT_ID, LOCATION, DATASTORE_ID,  \* module-level configuration
    cloud_event,    \* per invocation: the event it was invoked with
    pc,             \* per invocation: position in the handler
    bucket_name, file_name, gcs_uri,     \* per invocation: locals
    client,         \* per invocation: the client's options, NoClient before
    request,        \* per invocation: the request assembled
    operation,      \* per invocation: name of the operation handle, or None
    exc,            \* per invocation: the exception caught (e), or None
    outcome,        \* per invocation: "running", "returned" or "raised"
    trace,          \* per invocation: prints and calls, in order
    submitted,      \* per invocation: requests handed to import_documents
    opstate         \* per invocation: state of the remote operation

config == <<PROJECT_ID, LOCATION, DATASTORE_ID>>
locals == <<bucket_name, file_name, gcs_uri, client, request, operation, exc>>
vars == <<PROJECT_ID, LOCATION, DATASTORE_ID, cloud_event, pc, bucket_name,
          file_name, gcs_uri, client, request, operation, exc, outcome, trace,
          submitted, opstate>>

Init ==
    /\ PROJECT_ID = "proj1"
    /\ LOCATION = "global"
    /\ DATASTORE_ID = "ds1"
    /\ cloud_event = [i \in Invocations |-> NoEvent]
    /\ pc = [i \in Invocations |-> "idle"]
    /\ bucket_name = [i \in Invocations |-> None]
    /\ file_name = [i \in Invocations |-> None]
    /\ gcs_uri = [i \in Invocations |-> None]
    /\ client = [i \in Invocations |-> NoClient]
    /\ request = [i \in Invocations |-> NoRequest]
    /\ operation = [i \in Invocations |-> None]
    /\ exc = [i \in Invocations |-> None]
    /\ outcome = [i \in Invocations |-> "running"]
    /\ trace = [i \in Invocations |-> <<>>]
    /\ submitted = [i \in Invocations |-> <<>>]
    /\ opstate = [i \in Invocations |-> "none"]

\* Line 43: gcs_uri is a local of the invocation that assigns it.
SetGcsUriGlobal(i, uri) == [j \in Invocations |-> uri]

SetGcsUri(i, uri) == [gcs_uri EXCEPT ![i] = uri]

\* Lines 19-44: the runtime invokes the handler with an event; the handler
\* reads bucket, name and type, prints them, returns when either field is
\* missing or empty, and otherwise builds and prints the URI.
Start(i) ==
    /\ pc[i] = "idle"
    /\ \E ev \in Events :
        LET b == Get(ev.data, "bucket")
            f == Get(ev.data, "name")
            lines == EventLines(ev.type, b, f)
        IN /\ cloud_event' = [cloud_event EXCEPT ![i] = ev]
           /\ bucket_name' = [bucket_name EXCEPT ![i] = b]
           /\ file_name' = [file_name EXCEPT ![i] = f]
           /\ IF MissingField(b, f)
              THEN /\ trace' = [trace EXCEPT ![i] = lines \o <<MissingLine>>]
                   /\ pc' = [pc EXCEPT ![i] = "done"]
                   /\ outcome' = [outcome EXCEPT ![i] = "returned"]
                   /\ UNCHANGED gcs_uri
              ELSE /\ gcs_uri' = SetGcsUri(i, GcsUri(b, f))
                   /\ trace' = [trace EXCEPT ![i] = lines \o <<UriLine(GcsUri(b, f))>>]
                   /\ pc' = [pc EXCEPT ![i] = "client"]
                   /\ UNCHANGED outcome
    /\ UNCHANGED <<config, client, request, operation, exc, submitted, opstate>>

\* Lines 58-75: the request of invocation i, from the configuration and its
\* own URI.
RequestForByType(i) ==
    [ImportDocumentsRequest(
        BranchPath(PROJECT_ID, LOCATION, DATASTORE_ID, "default_branch"), gcs_uri[i])
     EXCEPT !.reconciliation_mode =
        IF cloud_event[i].type = DeletedType THEN "FULL" ELSE "INCREMENTAL"]

RequestFor(i) ==
    ImportDocumentsRequest(
        BranchPath(PROJECT_ID, LOCATION, DATASTORE_ID, "default_branch"), gcs_uri[i])

\* Lines 47-75: client options from LOCATION, then the client, whose
\* construction may raise (no credentials, bad endpoint); with the client,
\* the parent branch path and the import request.
CreateClient(i) ==
    /\ pc[i] = "client"
    /\ \/ /\ client' = [client EXCEPT ![i] = ClientOptions(LOCATION)]
          /\ request' = [request EXCEPT ![i] = RequestFor(i)]
          /\ trace' = [trace EXCEPT ![i] = @ \o <<Call("DocumentServiceClient"),
                                                   Returned("DocumentServiceClient"),
                                                   Call("branch_path"),
                                                   Call("ImportDocumentsRequest")>>]
          /\ pc' = [pc EXCEPT ![i] = "submit"]
          /\ UNCHANGED exc
       \/ /\ exc' = [exc EXCEPT ![i] = ClientError]
          /\ trace' = [trace EXCEPT ![i] = @ \o <<Call("DocumentServiceClient"),
                                                   Raised("DocumentServiceClient")>>]
          /\ pc' = [pc EXCEPT ![i] = "except"]
          /\ UNCHANGED <<client, request>>
    /\ UNCHANGED <<config, cloud_event, bucket_name, file_name, gcs_uri,
                   operation, outcome, submitted, opstate>>

ImportDocumentsNoWait(i) ==
    /\ pc[i] = "submit"
    /\ submitted' = [submitted EXCEPT ![i] = Append(@, request[i])]
    /\ \/ /\ operation' = [operation EXCEPT ![i] = OperationName(i)]
          /\ opstate' = [opstate EXCEPT ![i] = "running"]
          /\ trace' = [trace EXCEPT ![i] = @ \o <<StartingLine(gcs_uri[i]),
                                                   Call("import_documents"),
                                                   Returned("import_documents")>>]
          /\ pc' = [pc EXCEPT ![i] = "metadata"]
          /\ UNCHANGED exc
       \/ /\ exc' = [exc EXCEPT ![i] = SubmitError]
          /\ trace' = [trace EXCEPT ![i] = @ \o <<StartingLine(gcs_uri[i]),
                                                   Call("import_documents"),
                                                   Raised("import_documents")>>]
          /\ pc' = [pc EXCEPT ![i] = "except"]
          /\ UNCHANGED <<operation, opstate>>
    /\ UNCHANGED <<config, cloud_event, bucket_name, file_name, gcs_uri, client,
                   request, outcome>>

\* Lines 77-83: print, then client.import_documents(request=request), which
\* raises or returns the handle of a running operation; with the handle,
\* print the operation's name and call operation.result(), which blocks.
ImportDocuments(i) ==
    /\ pc[i] = "submit"
    /\ submitted' = [submitted EXCEPT ![i] = Append(@, request[i])]
    /\ \/ /\ operation' = [operation EXCEPT ![i] = OperationName(i)]
          /\ opstate' = [opstate EXCEPT ![i] = "running"]
          /\ trace' = [trace EXCEPT ![i] = @ \o <<StartingLine(gcs_uri[i]),
                                                   Call("import_documents"),
                                                   Returned("import_documents"),
                                                   WaitingLine(OperationName(i)),
                                                   Call("result")>>]
          /\ pc' = [pc EXCEPT ![i] = "result"]
          /\ UNCHANGED exc
       \/ /\ exc' = [exc EXCEPT ![i] = SubmitError]
          /\ trace' = [trace EXCEPT ![i] = @ \o <<StartingLine(gcs_uri[i]),
                                                   Call("import_documents"),
                                                   Raised("import_documents")>>]
          /\ pc' = [pc EXCEPT ![i] = "except"]
          /\ UNCHANGED <<operation, opstate>>
    /\ UNCHANGED <<config, cloud_event, bucket_name, file_name, gcs_uri, client,
                   request, outcome>>

\* The service finishes the operation of invocation i, well or badly.
RemoteFinish(i) ==
    /\ opstate[i] = "running"
    /\ \E s \in {"succeeded", "failed"} : opstate' = [opstate EXCEPT ![i] = s]
    /\ UNCHANGED <<config, cloud_event, pc, locals, outcome, trace, submitted>>

\* Line 83: operation.result() is called without a timeout, so it comes back
\* only when the operation is no longer running.
ResultReadyOrTimeout(i) == TRUE

ResultReady(i) == opstate[i] # "running"

\* Line 83, the end of the call: operation.result() returns the response
\* once the operation has succeeded and raises once it has failed.
Result(i) ==
    /\ pc[i] = "result"
    /\ ResultReady(i)
    /\ IF opstate[i] = "succeeded"
       THEN /\ trace' = [trace EXCEPT ![i] = @ \o <<Returned("result")>>]
            /\ pc' = [pc EXCEPT ![i] = "metadata"]
            /\ UNCHANGED exc
       ELSE /\ exc' = [exc EXCEPT ![i] = ResultError]
            /\ trace' = [trace EXCEPT ![i] = @ \o <<Raised("result")>>]
            /\ pc' = [pc EXCEPT ![i] = "except"]
    /\ UNCHANGED <<config, cloud_event, bucket_name, file_name, gcs_uri, client,
                   request, operation, outcome, submitted, opstate>>

\* Lines 85-93: ImportDocumentsMetadata(operation.metadata), which may raise;
\* otherwise print response, metadata and the success line, after which the
\* function ends, returning None.
Report(i) ==
    /\ pc[i] = "metadata"
    /\ \/ /\ trace' = [trace EXCEPT ![i] = @ \o
                << Call("ImportDocumentsMetadata"), Returned("ImportDocumentsMetadata"),
                   ResponseHeader, ResponseLine("ImportDocumentsResponse"),
                   MetadataHeader, MetadataLine("ImportDocumentsMetadata"),
                   SuccessLine(gcs_uri[i], DATASTORE_ID) >>]
          /\ pc' = [pc EXCEPT ![i] = "done"]
          /\ outcome' = [outcome EXCEPT ![i] = "returned"]
          /\ UNCHANGED exc
       \/ /\ exc' = [exc EXCEPT ![i] = MetadataError]
          /\ trace' = [trace EXCEPT ![i] = @ \o <<Call("ImportDocumentsMetadata"),
                                                   Raised("ImportDocumentsMetadata")>>]
          /\ pc' = [pc EXCEPT ![i] = "except"]
          /\ UNCHANGED outcome
    /\ UNCHANGED <<config, cloud_event, bucket_name, file_name, gcs_uri, client,
                   request, operation, submitted, opstate>>

ExceptRetry(i) ==
    /\ pc[i] = "except"
    /\ trace' = [trace EXCEPT ![i] = @ \o <<ErrorLine(gcs_uri[i], exc[i])>>]
    /\ IF exc[i] = SubmitError
       THEN /\ pc' = [pc EXCEPT ![i] = "submit"]
            /\ UNCHANGED outcome
       ELSE /\ pc' = [pc EXCEPT ![i] = "done"]
            /\ outcome' = [outcome EXCEPT ![i] = "returned"]
    /\ UNCHANGED <<config, cloud_event, locals, submitted, opstate>>

ExceptThenSuccess(i) ==
    /\ pc[i] = "except"
    /\ trace' = [trace EXCEPT ![i] = @ \o <<ErrorLine(gcs_uri[i], exc[i]),
                                             SuccessLine(gcs_uri[i], DATASTORE_ID)>>]
    /\ pc' = [pc EXCEPT ![i] = "done"]
    /\ outcome' = [outcome EXCEPT ![i] = "returned"]
    /\ UNCHANGED <<config, cloud_event, locals, submitted, opstate>>

\* Lines 95-97: except Exception as e: print the error; there is no raise,
\* so the function ends, returning None.
Except(i) ==
    /\ pc[i] = "except"
    /\ trace' = [trace EXCEPT ![i] = @ \o <<ErrorLine(gcs_uri[i], exc[i])>>]
    /\ pc' = [pc EXCEPT ![i] = "done"]
    /\ outcome' = [outcome EXCEPT ![i] = "returned"]
    /\ UNCHANGED <<config, cloud_event, locals, submitted, opstate>>

Next ==
    \E i \in Invocations :
        \/ Start(i)
        \/ CreateClient(i)
        \/ ImportDocuments(i)
        \/ RemoteFinish(i)
        \/ Result(i)
        \/ Report(i)
        \/ Except(i)

Spec == Init /\ [][Next]_vars

\* A step of the handler's code in invocation i, once invoked.
HandlerStep(i) ==
    \/ CreateClient(i)
    \/ ImportDocuments(i)
    \/ Result(i)
    \/ Report(i)
    \/ Except(i)

\* A started invocation keeps running (the interpreter executes the next
\* statement), and the remote service finishes every operation it started.
FairSpec ==
    /\ Spec
    /\ \A i \in Invocations : WF_vars(HandlerStep(i)) /\ WF_vars(RemoteFinish(i))

TypeOK ==
    /\ pc \in [Invocations -> {"idle", "client", "submit", "result", "metadata",
                               "except", "done"}]
    /\ outcome \in [Invocations -> {"running", "returned", "raised"}]
    /\ opstate \in [Invocations -> {"none", "running", "succeeded", "failed"}]

\* ---- vocabulary of the properties ----

Has(tr, e) == \E n \in 1..Len(tr) : tr[n] = e

Count(tr, e) == Cardinality({n \in 1..Len(tr) : tr[n] = e})

IsPrint(e) == e.k = "print"

Prints(tr) == SelectSeq(tr, IsPrint)

StartsWith(str, prefix) ==
    Len(str) >= Len(prefix) /\ SubSeq(str, 1, Len(prefix)) = prefix

HasLine(tr, prefix) ==
    \E n \in 1..Len(tr) : tr[n].k = "print" /\ StartsWith(tr[n].s, prefix)

HasRaise(tr) == \E n \in 1..Len(tr) : tr[n].k = "raise"

HasCall(tr) == \E n \in 1..Len(tr) : tr[n].k = "call"

\* What the event carries, read off the event itself.
EvBucket(i) == Get(cloud_event[i].data, "bucket")
EvName(i) == Get(cloud_event[i].data, "name")
Invoked(i) == pc[i] # "idle"
Valid(i) == Invoked(i) /\ Truthy(EvBucket(i)) /\ Truthy(EvName(i))
Missing(i) == Invoked(i) /\ ~(Truthy(EvBucket(i)) /\ Truthy(EvName(i)))

\* The locator gs://{bucket}/{name} of invocation i's event.
Locator(i) == "gs://" \o EvBucket(i) \o "/" \o EvName(i)

\* C1: whenever import_documents or operation.result raised, the invocation
\* ends by propagating an error to its caller, having logged the locator
\* with the failure.
C1_RemoteFailurePropagates ==
    \A i \in Invocations :
        ( /\ pc[i] = "done"
          /\ Valid(i)
          /\ \/ Has(trace[i], Raised("import_documents"))
             \/ Has(trace[i], Raised("result")) )
        => /\ outcome[i] = "raised"
           /\ Has(trace[i], ErrorLine(Locator(i), exc[i]))

C3_ExactlyOneSubmission ==
    \A i \in Invocations :
        (pc[i] = "done" /\ Valid(i))
        => /\ Len(submitted[i]) = 1
           /\ Count(trace[i], Call("import_documents")) = 1

\* C3 amended: a valid event leads to at most one submission, at any time;
\* a finished invocation has made exactly one unless the client could not be
\* constructed, and then none; a failed submission or wait is not followed
\* by a second one; every submitted request carries exactly one URI, schema
\* "content" and mode INCREMENTAL.  No submission without a valid event.
C3_AtMostOneSubmission ==
    \A i \in Invocations :
        /\ Len(submitted[i]) <= 1
        /\ Count(trace[i], Call("import_documents")) = Len(submitted[i])
        /\ (Len(submitted[i]) = 1 => Valid(i))
        /\ (pc[i] = "done" /\ Valid(i))
            => (Len(submitted[i]) = 1 <=> ~Has(trace[i], Raised("DocumentServiceClient")))
        /\ \A n \in 1..Len(submitted[i]) :
            /\ Len(submitted[i][n].gcs_source.input_uris) = 1
            /\ submitted[i][n].gcs_source.data_schema = "content"
            /\ submitted[i][n].reconciliation_mode = "INCREMENTAL"

C3_Witness ==
    \E i, j \in Invocations :
        /\ pc[i] = "done" /\ Valid(i) /\ exc[i] = SubmitError /\ Len(submitted[i]) = 1
        /\ pc[j] = "done" /\ Valid(j) /\ exc[j] = ClientError /\ Len(submitted[j]) = 0

\* C4: the locator in the submitted request is "gs://" + bucket + "/" + name
\* and nothing else decides it: invocations with the same (bucket, name)
\* carry the same locator, whatever their event type.
C4_LocatorIsConcatenation ==
    /\ \A i \in Invocations : \A n \in 1..Len(submitted[i]) :
        LET uris == submitted[i][n].gcs_source.input_uris
            u == uris[1]
            b == EvBucket(i)
            f == EvName(i)
        IN /\ Len(uris) = 1
           /\ Len(u) = 5 + Len(b) + 1 + Len(f)
           /\ SubSeq(u, 1, 5) = "gs://"
           /\ SubSeq(u, 6, 5 + Len(b)) = b
           /\ SubSeq(u, 6 + Len(b), 6 + Len(b)) = "/"
           /\ SubSeq(u, 7 + Len(b), Len(u)) = f
           /\ u = gcs_uri[i]
    /\ \A i, j \in Invocations :
        ( /\ submitted[i] # <<>> /\ submitted[j] # <<>>
          /\ EvBucket(i) = EvBucket(j) /\ EvName(i) = EvName(j) )
        => submitted[i][1].gcs_source.input_uris = submitted[j][1].gcs_source.input_uris

C4_Witness ==
    \E i, j \in Invocations :
        /\ i # j
        /\ submitted[i] # <<>> /\ submitted[j] # <<>>
        /\ EvBucket(i) = EvBucket(j) /\ EvName(i) = EvName(j)
        /\ cloud_event[i].type # cloud_event[j].type
        /\ submitted[i][1].gcs_source.input_uris = <<"gs://docs-bucket/folder/report.pdf">>

\* C5: an invocation whose operation.result() returned does not return
\* without having logged both the response and the metadata.
C5_SuccessLogsResponseAndMetadata ==
    \A i \in Invocations :
        (outcome[i] = "returned" /\ Has(trace[i], Returned("result")))
        => /\ Has(trace[i], ResponseHeader)
           /\ Has(trace[i], ResponseLine("ImportDocumentsResponse"))
           /\ Has(trace[i], MetadataHeader)
           /\ Has(trace[i], MetadataLine("ImportDocumentsMetadata"))

\* C6: two invocations with the same bucket and name (under the one
\* configuration) submit structurally identical requests, and each submits
\* its request whatever became of the other: an invocation past the
\* submission step has submitted once.
C6_SameEventSameRequest ==
    /\ \A i, j \in Invocations :
        ( /\ submitted[i] # <<>> /\ submitted[j] # <<>>
          /\ EvBucket(i) = EvBucket(j) /\ EvName(i) = EvName(j) )
        => /\ submitted[i] = submitted[j]
           /\ submitted[i][1].parent = submitted[j][1].parent
           /\ submitted[i][1].gcs_source = submitted[j][1].gcs_source
           /\ submitted[i][1].reconciliation_mode = submitted[j][1].reconciliation_mode
    /\ \A i \in Invocations :
        pc[i] \in {"result", "metadata"} => Len(submitted[i]) = 1

C6_Witness ==
    \E i, j \in Invocations :
        /\ i # j
        /\ cloud_event[i].data = cloud_event[j].data
        /\ cloud_event[i].type # cloud_event[j].type
        /\ pc[i] = "done" /\ exc[i] = SubmitError
        /\ pc[j] = "done" /\ exc[j] = None
        /\ submitted[i] # <<>> /\ submitted[i] = submitted[j]

\* The place of a trace entry in the handler's order of steps.
Rank(e) ==
    CASE e.k = "print" /\ StartsWith(e.s, "Event type: ") -> 1
      [] e.k = "print" /\ StartsWith(e.s, "Bucket: ") -> 2
      [] e.k = "print" /\ StartsWith(e.s, "File: ") -> 3
      [] e = MissingLine -> 4
      [] e.k = "print" /\ StartsWith(e.s, "Constructed GCS URI: ") -> 5
      [] e = Call("DocumentServiceClient") -> 6
      [] e.k \in {"ok", "raise"} /\ e.s = "DocumentServiceClient" -> 7
      [] e = Call("branch_path") -> 8
      [] e = Call("ImportDocumentsRequest") -> 9
      [] e.k = "print" /\ StartsWith(e.s, "Starting document import for: ") -> 10
      [] e = Call("import_documents") -> 11
      [] e.k \in {"ok", "raise"} /\ e.s = "import_documents" -> 12
      [] e.k = "print" /\ StartsWith(e.s, "Waiting for import operation to complete: ") -> 13
      [] e = Call("result") -> 14
      [] e.k \in {"ok", "raise"} /\ e.s = "result" -> 15
      [] e = Call("ImportDocumentsMetadata") -> 16
      [] e.k \in {"ok", "raise"} /\ e.s = "ImportDocumentsMetadata" -> 17
      [] e = ResponseHeader -> 18
      [] e = ResponseLine("ImportDocumentsResponse") -> 19
      [] e = MetadataHeader -> 20
      [] e = MetadataLine("ImportDocumentsMetadata") -> 21
      [] e.k = "print" /\ StartsWith(e.s, "Successfully imported ") -> 22
      [] e.k = "print" /\ StartsWith(e.s, "Error importing document ") -> 23
      [] OTHER -> 0

\* First position of entry e in tr (0 when absent).
Pos(tr, e) ==
    IF Has(tr, e) THEN CHOOSE n \in 1..Len(tr) : tr[n] = e /\ \A m \in 1..(n-1) : tr[m] # e
    ELSE 0

\* C7: the steps of one invocation happen in the order extraction,
\* missing-field check, locator, request assembly, submission, wait, report:
\* no submission before the check has passed, no wait before the submission
\* returned a handle, no response/metadata/success line before the wait
\* returned.
C7_StepsInOrder ==
    \A i \in Invocations :
        LET tr == trace[i] IN
        /\ \A n \in 1..Len(tr) : 0 < Rank(tr[n])
        /\ \A n \in 1..(Len(tr) - 1) : Rank(tr[n]) < Rank(tr[n + 1])
        /\ Has(tr, Call("import_documents"))
            => /\ Valid(i)
               /\ ~Has(tr, MissingLine)
               /\ 0 < Pos(tr, UriLine(Locator(i)))
               /\ Pos(tr, UriLine(Locator(i))) < Pos(tr, Call("ImportDocumentsRequest"))
               /\ Pos(tr, Call("ImportDocumentsRequest")) < Pos(tr, Call("import_documents"))
        /\ Has(tr, Call("result"))
            => /\ 0 < Pos(tr, Returned("import_documents"))
               /\ Pos(tr, Returned("import_documents")) < Pos(tr, Call("result"))
               /\ operation[i] # None
        /\ \A n \in 1..Len(tr) :
            Rank(tr[n]) \in 18..22
            => /\ 0 < Pos(tr, Returned("result"))
               /\ Pos(tr, Returned("result")) < n

C7_Witness ==
    \E i \in Invocations :
        /\ pc[i] = "done"
        /\ Has(trace[i], Returned("result"))
        /\ HasLine(trace[i], "Successfully imported ")

\* The complete trace of an invocation run on its own: a function of its
\* event, the configuration, the name of its operation and the exception
\* (if any) its own calls raised.
SoloTrace(ev, datastore, opname, e) ==
    LET b == Get(ev.data, "bucket")
        f == Get(ev.data, "name")
        uri == "gs://" \o Fmt(b) \o "/" \o Fmt(f)
        head == << Printed("Event type: " \o ev.type),
                   Printed("Bucket: " \o Fmt(b)),
                   Printed("File: " \o Fmt(f)) >>
        failed == <<Printed("Error importing document " \o uri \o ": " \o Fmt(e))>>
        toClient == head \o <<Printed("Constructed GCS URI: " \o uri),
                              Call("DocumentServiceClient")>>
        toSubmit == toClient \o <<Returned("DocumentServiceClient"), Call("branch_path"),
                                  Call("ImportDocumentsRequest"),
                                  Printed("Starting document import for: " \o uri),
                                  Call("import_documents")>>
        toResult == toSubmit \o <<Returned("import_documents"),
                                  Printed("Waiting for import operation to complete: " \o opname),
                                  Call("result")>>
        toMetadata == toResult \o <<Returned("result"), Call("ImportDocumentsMetadata")>>
    IN  IF ~(Truthy(b) /\ Truthy(f))
        THEN head \o <<MissingLine>>
        ELSE CASE e = ClientError -> toClient \o <<Raised("DocumentServiceClient")>> \o failed
               [] e = SubmitError -> toSubmit \o <<Raised("import_documents")>> \o failed
               [] e = ResultError -> toResult \o <<Raised("result")>> \o failed
               [] e = MetadataError ->
                    toMetadata \o <<Raised("ImportDocumentsMetadata")>> \o failed
               [] OTHER ->
                    toMetadata \o
                    << Returned("ImportDocumentsMetadata"),
                       Printed("Import operation response:"),
                       Printed("ImportDocumentsResponse"),
                       Printed("Import operation metadata:"),
                       Printed("ImportDocumentsMetadata"),
                       Printed("Successfully imported " \o uri \o " into datastore "
                                   \o Fmt(datastore)) >>

\* The requests an invocation run on its own hands to the service.
SoloSubmitted(ev, project, location, datastore, e) ==
    LET b == Get(ev.data, "bucket")
        f == Get(ev.data, "name")
    IN  IF ~(Truthy(b) /\ Truthy(f)) \/ e = ClientError
        THEN <<>>
        ELSE << [parent |-> "projects/" \o Fmt(project) \o "/locations/" \o Fmt(location)
                            \o "/collections/default_collection/dataStores/"
                            \o Fmt(datastore) \o "/branches/default_branch",
                 gcs_source |-> [input_uris |-> <<"gs://" \o b \o "/" \o f>>,
                                 data_schema |-> "content"],
                 reconciliation_mode |-> "INCREMENTAL"] >>

\* C8: concurrent invocations do not interfere.  No step writes the
\* configuration, and however the steps of the invocations interleave, each
\* finished invocation has submitted the request and produced the trace and
\* outcome it produces when run alone, decided by its own event, the
\* configuration and the result of its own calls.
C8_NoInterference ==
    /\ [][PROJECT_ID' = PROJECT_ID /\ LOCATION' = LOCATION
            /\ DATASTORE_ID' = DATASTORE_ID]_vars
    /\ [](\A i \in Invocations :
            pc[i] = "done"
            => /\ trace[i] = SoloTrace(cloud_event[i], DATASTORE_ID,
                                       OperationName(i), exc[i])
               /\ submitted[i] = SoloSubmitted(cloud_event[i], PROJECT_ID, LOCATION,
                                               DATASTORE_ID, exc[i])
               /\ outcome[i] = "returned")

C8_Witness ==
    \E i, j \in Invocations :
        /\ i # j
        /\ pc[i] = "done" /\ pc[j] = "done"
        /\ Valid(i) /\ Valid(j)
        /\ cloud_event[i].data # cloud_event[j].data
        /\ exc[i] = None /\ exc[j] = ResultError

\* C9: no timeout, no cancellation.  While the remote operation is running,
\* an invocation blocked in operation.result() stays there and neither logs,
\* gives up nor submits again; if every operation started is eventually
\* finished by the service, every invocation started eventually ends.
C9_WaitsUntilRemoteFinishes ==
    /\ [][\A i \in Invocations :
            (pc[i] = "result" /\ opstate[i] = "running")
            => /\ pc'[i] = "result"
               /\ trace'[i] = trace[i]
               /\ submitted'[i] = submitted[i]
               /\ outcome'[i] = "running"
               /\ exc'[i] = exc[i]]_vars
    /\ \A i \in Invocations : (pc[i] # "idle") ~> (pc[i] = "done")

C9_Witness ==
    \E i, j \in Invocations :
        /\ pc[i] = "result" /\ opstate[i] = "running"
        /\ pc[j] = "done" /\ Has(trace[j], Call("result")) /\ opstate[j] # "running"

\* C10: the success line appears only after submission and wait both
\* returned without error, the error line only after some step of the import
\* block raised; no invocation prints both, and the missing-field path
\* prints neither.
C10_SuccessXorError ==
    \A i \in Invocations :
        LET tr == trace[i]
            success == HasLine(tr, "Successfully imported ")
            error == HasLine(tr, "Error importing document ")
        IN /\ success => /\ Has(tr, Returned("import_documents"))
                         /\ Has(tr, Returned("result"))
                         /\ ~HasRaise(tr)
                         /\ exc[i] = None
           /\ error => /\ HasRaise(tr)
                       /\ Has(tr, Call("DocumentServiceClient"))
                       /\ exc[i] # None
           /\ ~(success /\ error)
           /\ Missing(i) => (~success /\ ~error)

C10_Witness ==
    \E i, j \in Invocations :
        /\ HasLine(trace[i], "Successfully imported ")
        /\ HasLine(trace[j], "Error importing document ")
        /\ Has(trace[j], Returned("result"))
====
